---- MODULE Spec2Model ----
(***************************************************************************)
(* Model of examples/credential-modernization/aws_sso_example.py:          *)
(* the handle_aws_errors decorator, the wrapper it builds, and the wrapped *)
(* coroutines list_s3_buckets, delete_sqs_message and                      *)
(* put_cloudwatch_log_event, run by callers under asyncio's single-thread  *)
(* cooperative scheduler.                                                  *)
(*                                                                         *)
(* Python values are modelled by records:                                  *)
(*   an exception object  [type, response, msg, id]  (id is the object's   *)
(*                        identity: who created it and where)              *)
(*   a returned value     [t, v]                 (t is "list" or "None")   *)
(*   an outcome           [kind, value, exc]     (kind "return" / "raise") *)
(* A dict (ClientError.response) is a record whose DOMAIN is its key set.  *)
(***************************************************************************)
EXTENDS Integers, Sequences, FiniteSets, TLC

\* Number of caller tasks that each make one call.
NumInv == 2

Callers == 1..NumInv

\* Values the AWS_PROFILE environment variable may give (line 25).
Profiles == {"my-dev", "prod"}

\* The wrapped coroutines that are modelled (lines 89-96, 240-249, 277-313).
Funcs == {"list_s3_buckets", "delete_sqs_message", "put_cloudwatch_log_event"}

\* Argument lists a caller passes, per function signature.
ArgsOf(f) ==
    CASE f = "list_s3_buckets" -> { <<>> }
      [] f = "delete_sqs_message" -> { <<"queue-1", "rh-1">>, <<"queue-2", "rh-2">> }
      [] f = "put_cloudwatch_log_event" -> { <<"group", "stream", "hello">> }

\* Bucket-name lists the S3 list_buckets call may answer with.
BucketLists == { <<>>, <<"b1", "b2", "b3">> }

VARIABLES
    AWS_PROFILE,  \* module global, line 25; read only after import
    stderr,       \* sys.stderr: sequence of [by, text]
    pc,           \* per caller: "idle", "awaiting", "print", "raise", "resolved"
    via,          \* how the caller reached the code: "-", "name", "wrapper"
    fn,           \* the function the caller called
    args,         \* the arguments the caller passed
    funcArgs,     \* the arguments func received from wrapper (line 41)
    calls,        \* number of times wrapper invoked func
    step,         \* number of SDK calls func has issued so far
    issued,       \* the SDK operations func has issued, in order
    last,         \* what func's latest await produced
    opResult,     \* how func ended: what the await at line 41 produced
    error_msg,    \* wrapper local error_msg (lines 43, 51)
    outcome       \* what the caller observes

vars == <<AWS_PROFILE, stderr, pc, via, fn, args, funcArgs, calls, step,
          issued, last, opResult, error_msg, outcome>>

-----------------------------------------------------------------------------
\* Python values

NoId == [by |-> "-", inv |-> 0, n |-> 0]
EmptyDict == [k \in {} |-> k]
NoExc == [type |-> "-", response |-> EmptyDict, msg |-> <<>>, id |-> NoId]
NoValue == [t |-> "-", v |-> <<>>]
None == [t |-> "None", v |-> <<>>]
ListValue(s) == [t |-> "list", v |-> s]
NoOutcome == [kind |-> "-", value |-> NoValue, exc |-> NoExc]
Return(v) == [kind |-> "return", value |-> v, exc |-> NoExc]
Raise(e) == [kind |-> "raise", value |-> NoValue, exc |-> e]

Exc(type, response, by, i, n) ==
    [type |-> type, response |-> response, msg |-> <<>>,
     id |-> [by |-> by, inv |-> i, n |-> n]]

\* The response dicts a botocore ClientError may carry.  ClientError's
\* constructor accepts any dict, so the 'Error' or 'Code' entry can be absent.
Responses ==
    { [Error |-> [Code |-> "ExpiredToken"]],
      [Error |-> [Code |-> "AccessDenied"]],
      [Error |-> [Code |-> "ResourceAlreadyExistsException"]],
      [Error |-> [Message |-> "no code"]],
      [ResponseMetadata |-> [RequestId |-> "r"]] }

\* What an awaited SDK call of caller i, the n-th of its function, can raise:
\* TokenRetrievalError, ClientError, or another failure of the SDK.
SdkFailures(i, n) ==
    { Exc("TokenRetrievalError", EmptyDict, "sdk", i, n),
      Exc("EndpointConnectionError", EmptyDict, "sdk", i, n) }
    \cup { Exc("ClientError", r, "sdk", i, n) : r \in Responses }

\* What the n-th SDK call of function f can produce for caller i.
SdkOutcomes(f, i, n) ==
    { Raise(e) : e \in SdkFailures(i, n) }
    \cup IF f = "list_s3_buckets"
         THEN { Return(ListValue(b)) : b \in BucketLists }
         ELSE { Return(None) }

\* asyncio.CancelledError thrown into caller i's task at its n-th await.
Cancelled(i, n) == Raise(Exc("CancelledError", EmptyDict, "loop", i, n))

\* e.response['Error']['Code']: the code, or a KeyError when a key is absent.
HasCode(e) == "Error" \in DOMAIN e.response /\ "Code" \in DOMAIN e.response.Error
CodeOf(e) == e.response.Error.Code

-----------------------------------------------------------------------------
\* The wrapped coroutines.  Each is given as its continuation: what the body
\* does when its n-th await produces o.  The answer is either the next SDK
\* call to await or the way the coroutine ends.

Await == [next |-> "await", result |-> NoOutcome]
Done(r) == [next |-> "done", result |-> r]

\* The SDK operations each coroutine issues, in program order.
SdkOps(f) ==
    CASE f = "list_s3_buckets" -> <<"list_buckets">>
      [] f = "delete_sqs_message" -> <<"delete_message">>
      [] f = "put_cloudwatch_log_event" ->
            <<"create_log_group", "create_log_stream", "put_log_events">>

\* Lines 90-96: return the names of the buckets in the response.
list_s3_buckets(i, n, o) ==
    IF o.kind = "raise" THEN Done(Raise(o.exc)) ELSE Done(Return(o.value))

\* Lines 241-249: one delete_message call, no return statement.
delete_sqs_message(i, n, o) ==
    IF o.kind = "raise" THEN Done(Raise(o.exc)) ELSE Done(Return(None))

\* Variant of except_create without the code test: every ClientError that
\* carries a code is suppressed.
except_create_swallow(i, n, e) ==
    IF e.type # "ClientError" THEN Done(Raise(e))
    ELSE IF ~HasCode(e) THEN Done(Raise(Exc("KeyError", EmptyDict, "func", i, n)))
    ELSE Await

\* Lines 286-288 and 296-298: except ClientError around a create call.
except_create(i, n, e) ==
    IF e.type # "ClientError" THEN Done(Raise(e))
    ELSE IF ~HasCode(e) THEN Done(Raise(Exc("KeyError", EmptyDict, "func", i, n)))
    ELSE IF CodeOf(e) # "ResourceAlreadyExistsException" THEN Done(Raise(e))
    ELSE Await

\* Lines 278-313.
put_cloudwatch_log_event(i, n, o) ==
    IF n < 3
    THEN IF o.kind = "raise" THEN except_create(i, n, o.exc) ELSE Await
    ELSE IF o.kind = "raise" THEN Done(Raise(o.exc)) ELSE Done(Return(None))

FuncBody(f, i, n, o) ==
    CASE f = "list_s3_buckets" -> list_s3_buckets(i, n, o)
      [] f = "delete_sqs_message" -> delete_sqs_message(i, n, o)
      [] f = "put_cloudwatch_log_event" -> put_cloudwatch_log_event(i, n, o)

-----------------------------------------------------------------------------
\* handle_aws_errors and its wrapper (lines 37-60)

\* handle_aws_errors is declared "async def", so calling it with func gives a
\* coroutine object; awaiting that coroutine gives the inner function wrapper.
handle_aws_errors(f) ==
    [type |-> "coroutine", result |-> [type |-> "function", func |-> f]]

\* Variant of TokenMsg that names the default profile, not the configured one.
TokenMsgDefaultProfile ==
    <<"AWS SSO session expired!", "Please run: aws sso login --profile", "my-dev">>

\* Lines 43-46 and 51-54; the text as the list of its parts.
TokenMsg ==
    <<"AWS SSO session expired!", "Please run: aws sso login --profile", AWS_PROFILE>>
ExpiredMsg ==
    <<"Temporary credentials expired!", "Please run: aws sso login --profile", AWS_PROFILE>>

Normalize(m) == [do |-> "normalize", msg |-> m]
Reraise == [do |-> "reraise", msg |-> <<>>]
InspectKeyError == [do |-> "keyerror", msg |-> <<>>]

\* Variant of wrapper_except that tests for another code string.
wrapper_except_wrong_code(e) ==
    IF e.type = "TokenRetrievalError" THEN Normalize(TokenMsg)
    ELSE IF e.type = "ClientError"
         THEN IF ~HasCode(e) THEN InspectKeyError
              ELSE IF CodeOf(e) = "ExpiredTokenException" THEN Normalize(ExpiredMsg)
              ELSE Reraise
    ELSE Reraise

\* Variant of wrapper_except with a bare except in place of
\* "except TokenRetrievalError".
wrapper_except_bare(e) ==
    IF e.type = "ClientError"
    THEN IF ~HasCode(e) THEN InspectKeyError
         ELSE IF CodeOf(e) = "ExpiredToken" THEN Normalize(ExpiredMsg)
         ELSE Reraise
    ELSE Normalize(TokenMsg)

\* Variant of wrapper_except that consults state shared by the tasks: while
\* another call is in flight every failure is taken for a credential failure.
wrapper_except_shared(e) ==
    IF Cardinality({j \in Callers : pc[j] = "awaiting"}) > 1
       \/ e.type = "TokenRetrievalError"
    THEN Normalize(TokenMsg)
    ELSE IF e.type = "ClientError"
         THEN IF ~HasCode(e) THEN InspectKeyError
              ELSE IF CodeOf(e) = "ExpiredToken" THEN Normalize(ExpiredMsg)
              ELSE Reraise
    ELSE Reraise

\* The except clauses of wrapper, lines 42-59, for exception e from func.
\* Neither TokenRetrievalError nor CancelledError derives from ClientError.
wrapper_except(e) ==
    IF e.type = "TokenRetrievalError" THEN Normalize(TokenMsg)
    ELSE IF e.type = "ClientError"
         THEN IF ~HasCode(e) THEN InspectKeyError
              ELSE IF CodeOf(e) = "ExpiredToken" THEN Normalize(ExpiredMsg)
              ELSE Reraise
    ELSE Reraise

\* Variant of wrapper_return without the return keyword.
wrapper_return_none(v) == Return(None)

\* Line 41: return await func(...) when func returned v.
wrapper_return(v) == Return(v)

\* Line 41: wrapper passes its own arguments on to func.
wrapper_call_args(a) == a

\* Cooperative scheduling: between the resumption of wrapper and its raise
\* there is no await, so no other task runs while a task is at "print" or "raise".
Scheduled(i) == \A j \in Callers \ {i} : pc[j] \notin {"print", "raise"}

\* wrapper(*args) up to its first suspension: func is called and runs to its
\* first SDK await.
Enter(i, f, a, how) ==
    /\ pc' = [pc EXCEPT ![i] = "awaiting"]
    /\ via' = [via EXCEPT ![i] = how]
    /\ fn' = [fn EXCEPT ![i] = f]
    /\ args' = [args EXCEPT ![i] = a]
    /\ funcArgs' = [funcArgs EXCEPT ![i] = wrapper_call_args(a)]
    /\ calls' = [calls EXCEPT ![i] = @ + 1]
    /\ step' = [step EXCEPT ![i] = 1]
    /\ issued' = [issued EXCEPT ![i] = <<SdkOps(f)[1]>>]
    /\ UNCHANGED <<AWS_PROFILE, stderr, last, opResult, error_msg, outcome>>

\* Lines 41-59: what wrapper does with r, the way func ended.
wrapper_handle(i, r) ==
    IF r.kind = "return"
    THEN /\ pc' = [pc EXCEPT ![i] = "resolved"]
         /\ outcome' = [outcome EXCEPT ![i] = wrapper_return(r.value)]
         /\ UNCHANGED error_msg
    ELSE LET h == wrapper_except(r.exc) IN
         CASE h.do = "normalize" ->
                 /\ pc' = [pc EXCEPT ![i] = "print"]
                 /\ error_msg' = [error_msg EXCEPT ![i] = h.msg]
                 /\ UNCHANGED outcome
           [] h.do = "keyerror" ->
                 /\ pc' = [pc EXCEPT ![i] = "resolved"]
                 /\ outcome' = [outcome EXCEPT ![i] =
                                   Raise(Exc("KeyError", EmptyDict, "wrapper", i, 0))]
                 /\ UNCHANGED error_msg
           [] h.do = "reraise" ->
                 /\ pc' = [pc EXCEPT ![i] = "resolved"]
                 /\ outcome' = [outcome EXCEPT ![i] = Raise(r.exc)]
                 /\ UNCHANGED error_msg

\* Variant of wrapper that calls func once more after a failure.
wrapper_retry(i, r) ==
    IF r.kind = "raise" /\ calls[i] < 2
    THEN /\ calls' = [calls EXCEPT ![i] = @ + 1]
         /\ step' = [step EXCEPT ![i] = 1]
         /\ issued' = [issued EXCEPT ![i] = Append(@, SdkOps(fn[i])[1])]
         /\ UNCHANGED <<pc, opResult, error_msg, outcome>>
    ELSE /\ opResult' = [opResult EXCEPT ![i] = r]
         /\ wrapper_handle(i, r)
         /\ UNCHANGED <<calls, step, issued>>

\* wrapper from the point the await at line 41 ends with r, up to its return,
\* its re-raise, or the print of line 47 / 55.  There is no loop: func is not
\* called again.
wrapper(i, r) ==
    /\ opResult' = [opResult EXCEPT ![i] = r]
    /\ wrapper_handle(i, r)
    /\ UNCHANGED <<calls, step, issued>>

\* The task of caller i is resumed with o, the result of its pending await.
Resume(i, o) ==
    /\ pc[i] = "awaiting"
    /\ Scheduled(i)
    /\ last' = [last EXCEPT ![i] = o]
    /\ LET r == FuncBody(fn[i], i, step[i], o) IN
       IF r.next = "await"
       THEN /\ step' = [step EXCEPT ![i] = @ + 1]
            /\ issued' = [issued EXCEPT ![i] = Append(@, SdkOps(fn[i])[step[i] + 1])]
            /\ UNCHANGED <<pc, opResult, error_msg, outcome, calls>>
       ELSE wrapper(i, r.result)
    /\ UNCHANGED <<AWS_PROFILE, stderr, via, fn, args, funcArgs>>

-----------------------------------------------------------------------------
\* Actions

Init ==
    /\ AWS_PROFILE \in Profiles
    /\ stderr = <<>>
    /\ pc = [i \in Callers |-> "idle"]
    /\ via = [i \in Callers |-> "-"]
    /\ fn = [i \in Callers |-> "-"]
    /\ args = [i \in Callers |-> <<>>]
    /\ funcArgs = [i \in Callers |-> <<>>]
    /\ calls = [i \in Callers |-> 0]
    /\ step = [i \in Callers |-> 0]
    /\ issued = [i \in Callers |-> <<>>]
    /\ last = [i \in Callers |-> NoOutcome]
    /\ opResult = [i \in Callers |-> NoOutcome]
    /\ error_msg = [i \in Callers |-> <<>>]
    /\ outcome = [i \in Callers |-> NoOutcome]

\* await f(*a) through the module-level name, as main does at lines 329, 340
\* and 352.  The name is bound to handle_aws_errors(f) by the @ line.
CallDecorated(i, f, a) ==
    /\ pc[i] = "idle"
    /\ Scheduled(i)
    /\ LET bound == handle_aws_errors(f) IN
       IF bound.type = "function"
       THEN Enter(i, f, a, "name")
       ELSE /\ pc' = [pc EXCEPT ![i] = "resolved"]
            /\ via' = [via EXCEPT ![i] = "name"]
            /\ fn' = [fn EXCEPT ![i] = f]
            /\ args' = [args EXCEPT ![i] = a]
            /\ outcome' = [outcome EXCEPT ![i] =
                              Raise(Exc("TypeError", EmptyDict, "call", i, 0))]
            /\ UNCHANGED <<AWS_PROFILE, stderr, funcArgs, calls, step, issued,
                           last, opResult, error_msg>>

\* w = await handle_aws_errors(f); await w(*a): the caller takes the wrapper
\* out of the decorator's coroutine and calls it.
CallWrapper(i, f, a) ==
    /\ pc[i] = "idle"
    /\ Scheduled(i)
    /\ LET w == handle_aws_errors(f).result IN
       /\ w.type = "function"
       /\ Enter(i, w.func, a, "wrapper")

\* The pending SDK call of caller i completes or fails.
SdkComplete(i) ==
    /\ pc[i] = "awaiting"
    /\ \E o \in SdkOutcomes(fn[i], i, step[i]) : Resume(i, o)

\* The task of caller i is cancelled while it is suspended.
Cancel(i) ==
    /\ pc[i] = "awaiting"
    /\ Resume(i, Cancelled(i, step[i]))

\* Lines 47 and 55: print(error_msg, file=sys.stderr).
PrintStderr(i) ==
    /\ pc[i] = "print"
    /\ stderr' = Append(stderr, [by |-> i, text |-> error_msg[i]])
    /\ pc' = [pc EXCEPT ![i] = "raise"]
    /\ UNCHANGED <<AWS_PROFILE, via, fn, args, funcArgs, calls, step, issued,
                   last, opResult, error_msg, outcome>>

\* Lines 48 and 56: raise AWSCredentialError(error_msg).
RaiseCredentialError(i) ==
    /\ pc[i] = "raise"
    /\ outcome' = [outcome EXCEPT ![i] =
          Raise([Exc("AWSCredentialError", EmptyDict, "wrapper", i, 0)
                    EXCEPT !.msg = error_msg[i]])]
    /\ pc' = [pc EXCEPT ![i] = "resolved"]
    /\ UNCHANGED <<AWS_PROFILE, stderr, via, fn, args, funcArgs, calls, step,
                   issued, last, opResult, error_msg>>

Next ==
    \/ \E i \in Callers, f \in Funcs : \E a \in ArgsOf(f) : CallDecorated(i, f, a)
    \/ \E i \in Callers, f \in Funcs : \E a \in ArgsOf(f) : CallWrapper(i, f, a)
    \/ \E i \in Callers : SdkComplete(i)
    \/ \E i \in Callers : Cancel(i)
    \/ \E i \in Callers : PrintStderr(i)
    \/ \E i \in Callers : RaiseCredentialError(i)

Spec == Init /\ [][Next]_vars

-----------------------------------------------------------------------------
\* Properties

ViaWrapper(i) == via[i] = "wrapper"
Resolved(i) == pc[i] = "resolved"
Failed(o, type) == o.kind = "raise" /\ o.exc.type = type
IsCredentialError(o) == Failed(o, "AWSCredentialError")
HasCodeEq(o, code) ==
    Failed(o, "ClientError") /\ HasCode(o.exc) /\ CodeOf(o.exc) = code
Contains(text, part) == \E k \in DOMAIN text : text[k] = part
Wrote(i) == \E k \in DOMAIN stderr : stderr[k].by = i
WroteRemediation(i) ==
    \E k \in DOMAIN stderr :
        /\ stderr[k].by = i
        /\ Contains(stderr[k].text, "Please run: aws sso login --profile")
        /\ Contains(stderr[k].text, AWS_PROFILE)
\* Equal but for the identity of the exception object.
SameUpToId(o1, o2) ==
    /\ o1.kind = o2.kind
    /\ o1.value = o2.value
    /\ o1.exc.type = o2.exc.type
    /\ o1.exc.response = o2.exc.response
    /\ o1.exc.msg = o2.exc.msg
LogOps == <<"create_log_group", "create_log_stream", "put_log_events">>

\* C1: when func returns, wrapper returns the same value, func having received
\* the caller's arguments, and the caller has written nothing to stderr.
C1_PassThrough ==
    \A i \in Callers :
        (Resolved(i) /\ ViaWrapper(i) /\ opResult[i].kind = "return")
        => /\ outcome[i].kind = "return"
           /\ outcome[i].value = opResult[i].value
           /\ funcArgs[i] = args[i]
           /\ ~Wrote(i)

C1_Witness ==
    \E i \in Callers :
        /\ Resolved(i) /\ ViaWrapper(i)
        /\ opResult[i] = Return(ListValue(<<"b1", "b2", "b3">>))
        /\ outcome[i] = Return(ListValue(<<"b1", "b2", "b3">>))

\* C2: a call whose func failed with TokenRetrievalError resolves with a new
\* AWSCredentialError, and in the step that raises AWSCredentialError the
\* remediation message naming AWS_PROFILE is already on stderr.
C2_TokenRetrieval ==
    [][\A i \in Callers :
          /\ (pc[i] # "resolved" /\ pc'[i] = "resolved"
                /\ Failed(opResult'[i], "TokenRetrievalError"))
             => (IsCredentialError(outcome'[i]) /\ outcome'[i].exc # opResult'[i].exc)
          /\ (~IsCredentialError(outcome[i]) /\ IsCredentialError(outcome'[i]))
             => WroteRemediation(i)
      ]_vars

C2_Witness ==
    \E i \in Callers :
        /\ Resolved(i) /\ Failed(opResult[i], "TokenRetrievalError")
        /\ IsCredentialError(outcome[i])
        /\ AWS_PROFILE = "prod"

\* C3: a call whose func failed with ClientError code ExpiredToken is
\* normalized: it raises nothing before the remediation message is on stderr,
\* and it resolves with AWSCredentialError, not with the ClientError.
C3_ExpiredToken ==
    \A i \in Callers :
        (ViaWrapper(i) /\ HasCodeEq(opResult[i], "ExpiredToken"))
        => /\ pc[i] \in {"print", "raise", "resolved"}
           /\ pc[i] \in {"raise", "resolved"}
              => /\ WroteRemediation(i)
                 /\ \E k \in DOMAIN stderr :
                       stderr[k] = [by |-> i, text |-> ExpiredMsg]
           /\ pc[i] # "resolved" => outcome[i] = NoOutcome
           /\ pc[i] = "resolved"
              => IsCredentialError(outcome[i]) /\ outcome[i].exc # opResult[i].exc

C3_Witness ==
    \E i \in Callers :
        /\ Resolved(i) /\ HasCodeEq(opResult[i], "ExpiredToken")
        /\ IsCredentialError(outcome[i])

\* C4: a call whose func failed with anything but TokenRetrievalError or
\* ClientError code ExpiredToken resolves with the same exception object,
\* and the caller has written nothing to stderr.
C4_OtherFailuresPropagate ==
    \A i \in Callers :
        (/\ Resolved(i) /\ ViaWrapper(i)
         /\ opResult[i].kind = "raise"
         /\ ~Failed(opResult[i], "TokenRetrievalError")
         /\ ~HasCodeEq(opResult[i], "ExpiredToken"))
        => /\ outcome[i] = Raise(opResult[i].exc)
           /\ ~Wrote(i)

\* C5: a call through the decorated module-level name invokes func once with
\* the caller's arguments and resolves with func's result, with
\* AWSCredentialError, or with func's own failure.
C5_DecoratedCallable ==
    \A i \in Callers :
        (Resolved(i) /\ via[i] = "name")
        => /\ calls[i] = 1
           /\ funcArgs[i] = args[i]
           /\ \/ outcome[i].kind = "return" /\ outcome[i] = opResult[i]
              \/ IsCredentialError(outcome[i])
              \/ outcome[i].kind = "raise" /\ outcome[i] = opResult[i]

\* C6: a call whose func failed with a ClientError that carries no code does
\* not end in the KeyError of the code inspection: it raises, it does not
\* raise AWSCredentialError, and what it raises is not the inspection's crash.
C6_NoCodeInspection ==
    \A i \in Callers :
        (/\ Resolved(i) /\ ViaWrapper(i)
         /\ Failed(opResult[i], "ClientError") /\ ~HasCode(opResult[i].exc))
        => /\ outcome[i].kind = "raise"
           /\ ~IsCredentialError(outcome[i])
           /\ ~(outcome[i].exc.type = "KeyError" /\ outcome[i].exc.id.by = "wrapper")

\* C7: a call cancelled while suspended resolves with that CancelledError
\* object, and the caller has written nothing to stderr.
C7_Cancellation ==
    \A i \in Callers :
        (ViaWrapper(i) /\ Failed(last[i], "CancelledError"))
        => /\ Resolved(i)
           /\ opResult[i] = last[i]
           /\ outcome[i] = Raise(last[i].exc)
           /\ ~Wrote(i)

C7_Witness ==
    \E i \in Callers :
        /\ Resolved(i) /\ ViaWrapper(i)
        /\ Failed(outcome[i], "CancelledError")
        /\ fn[i] = "put_cloudwatch_log_event" /\ step[i] = 2

\* C8: wrapper invokes func exactly once per call, and once func has ended
\* the call is never pending again.
C8_NoRetry ==
    \A i \in Callers :
        /\ ViaWrapper(i) => calls[i] = 1
        /\ ~ViaWrapper(i) => calls[i] = 0
        /\ opResult[i] # NoOutcome => pc[i] \in {"print", "raise", "resolved"}

C8_Witness ==
    \E i \in Callers :
        /\ Resolved(i) /\ ViaWrapper(i) /\ calls[i] = 1
        /\ Failed(opResult[i], "TokenRetrievalError")
        /\ \E j \in Callers : Resolved(j) /\ ViaWrapper(j) /\ opResult[j].kind = "return"

\* C9: two resolved calls whose funcs ended the same way (up to the identity
\* of the exception object) resolved the same way, whatever the interleaving.
C9_Independent ==
    \A i, j \in Callers :
        (/\ Resolved(i) /\ ViaWrapper(i)
         /\ Resolved(j) /\ ViaWrapper(j)
         /\ SameUpToId(opResult[i], opResult[j]))
        => /\ SameUpToId(outcome[i], outcome[j])
           /\ Wrote(i) <=> Wrote(j)

C9_Witness ==
    \E i, j \in Callers :
        /\ i # j
        /\ Resolved(i) /\ ViaWrapper(i) /\ Resolved(j) /\ ViaWrapper(j)
        /\ HasCodeEq(opResult[i], "AccessDenied")
        /\ HasCodeEq(opResult[j], "ExpiredToken")
        /\ outcome[i] = Raise(opResult[i].exc)
        /\ IsCredentialError(outcome[j])
        /\ stderr # <<>> /\ stderr[1].by = j

\* C10: put_cloudwatch_log_event issues create_log_group, create_log_stream,
\* put_log_events in that order, each at most once; it goes on to the next
\* step only after a success or a ResourceAlreadyExistsException; any other
\* failure of a create step ends it with put_log_events not issued, and an
\* ExpiredToken failure of a create step is what wrapper then normalizes.
C10_LogEventSteps ==
    \A i \in Callers :
        fn[i] = "put_cloudwatch_log_event"
        => /\ issued[i] = SubSeq(LogOps, 1, step[i])
           /\ pc[i] = "awaiting"
              => \/ step[i] = 1 /\ last[i] = NoOutcome
                 \/ step[i] > 1 /\ last[i].kind = "return"
                 \/ step[i] > 1 /\ HasCodeEq(last[i], "ResourceAlreadyExistsException")
           /\ (last[i].kind = "raise" /\ last[i].exc.id.n < 3
                 /\ ~HasCodeEq(last[i], "ResourceAlreadyExistsException"))
              => /\ pc[i] \in {"print", "raise", "resolved"}
                 /\ step[i] = last[i].exc.id.n
                 /\ ~Contains(issued[i], "put_log_events")
           /\ (HasCodeEq(last[i], "ExpiredToken") /\ last[i].exc.id.n < 3)
              => /\ opResult[i] = last[i]
                 /\ Resolved(i) => IsCredentialError(outcome[i])

C10_Witness ==
    \E i, j \in Callers :
        /\ fn[i] = "put_cloudwatch_log_event" /\ Resolved(i) /\ ViaWrapper(i)
        /\ HasCodeEq(last[i], "ExpiredToken") /\ step[i] = 2
        /\ IsCredentialError(outcome[i])
        /\ fn[j] = "put_cloudwatch_log_event" /\ pc[j] = "awaiting"
        /\ HasCodeEq(last[j], "ResourceAlreadyExistsException") /\ step[j] = 3

====
